---- MODULE Spec2Model ----
(***************************************************************************)
(* A model of runescrape's collector (src/collector.py) and its storage    *)
(* schema (src/db.py).                                                     *)
(*                                                                         *)
(* Seven specifications share this module:                                 *)
(*   Spec         one collect() run over a list of tracked entries         *)
(*   SpecEntries  main() building the list it hands to collect()           *)
(*   SpecResolve  one get_neighbor_players() call                          *)
(*   SpecParser   one OverallTableParser fed one page                      *)
(*   SpecStore    the line parsing of one store_snapshot() call            *)
(*   SpecMigrate  one run of scripts/migrate_sqlite_to_postgres.py         *)
(*   SpecPages    fetch_overall_page_rows() called for page after page     *)
(*                                                                         *)
(* Strings the code converts are modelled by what the conversion reads:    *)
(* a raw comma-separated field is <<"num", n>> when Python's int() accepts *)
(* it with value n and <<"txt", k>> when int() raises ValueError (k = 0    *)
(* some text, k = 1 the empty string).  An optional integer (int | None)   *)
(* is <<>> for None and <<v>> for v.  The timestamp and date columns of a  *)
(* snapshot are not modelled.                                              *)
(***************************************************************************)
EXTENDS Integers, Sequences, FiniteSets, TLC

VARIABLES
    \* ---- collect() (Spec) ----
    entries,      \* the list main() hands to collect()
    idx,          \* 1-based position of the for loop of collect()
    pc,           \* where the run is
    lines,        \* the raw record fetch_raw returned for entries[idx]
    raised,       \* the exception fetch_raw raised for entries[idx], or "none"
    status,       \* kind and status code of the response fetch_raw got last
    payload,      \* skill_rows and minigame_rows parsed by store_snapshot
    tx,           \* the open transaction's working copy of the tables, or NoTx
    db,           \* the committed tables: what every other reader sees
    seq,          \* last value of the PostgreSQL id sequence
    backend,      \* which engine get_engine() built
    attempts,     \* history: the entries fetch_raw was called for, in order
    results,      \* history: what collect() printed for each attempted entry
    pre,          \* history: db when the current store_snapshot was called
    staged,       \* history: the statements the failed transaction had run
    origin,       \* history: <<snapshot id, number of lines of its raw record>>
    \* ---- main() (SpecEntries; it also uses entries and pc) ----
    players,      \* args.players: the --player values, <<>> when none was given
    modes,        \* args.modes: the --mode values
    neighbors,    \* what get_neighbor_players returned
    \* ---- get_neighbor_players() (SpecResolve; it also uses pc and neighbors) ----
    world,            \* the leaderboard the hiscore site serves during the call
    ahead_count,      \* argument
    behind_count,     \* argument
    anchor_rank,      \* what get_overall_rank returned
    candidate_pages,  \* the page indices to try, in order
    page_i,           \* 1-based position of the for loop over candidate_pages
    rank_to_player,   \* the accumulated map
    requested,        \* history: the page indices requested, in order
    failures,         \* history: how many page fetches raised
    failed,           \* history: the page indices whose fetch raised
    \* ---- OverallTableParser.feed() (SpecParser; it also uses pc) ----
    doc,              \* resp.text: the table it holds and how it is written
    pos,              \* 1-based position of the next event feed() handles
    parser_rows,      \* self.rows
    in_tr,            \* self._in_tr
    in_td,            \* self._in_td
    current_td,       \* self._current_td
    current_row,      \* self._current_row
    \* ---- migrate_sqlite_to_postgres.main() (SpecMigrate; it also uses pc, tx, db,
    \*      seq and backend) ----
    sqlite_file,      \* the file at SQLITE_PATH and the rows main() read from it
    \* ---- fetch_overall_page_rows() called again and again (SpecPages; it also uses
    \*      doc, pc and the parser's fields) ----
    pages             \* history: the document and the outcome of every call so far

collectVars == <<entries, idx, pc, lines, raised, status, payload, tx, db, seq, backend,
                 attempts, results, pre, staged, origin>>
mainVars == <<players, modes, neighbors>>
resolveVars == <<world, ahead_count, behind_count, anchor_rank, candidate_pages, page_i,
                 rank_to_player, requested, failures, failed>>
parserVars == <<doc, pos, parser_rows, in_tr, in_td, current_td, current_row>>
migrateVars == <<sqlite_file>>
pagesVars == <<pages>>
vars == <<collectVars, mainVars, resolveVars, parserVars, migrateVars, pagesVars>>

\* What the actions of one specification leave alone.
nonCollectVars == <<mainVars, resolveVars, parserVars, migrateVars, pagesVars>>
nonMainVars == <<idx, lines, raised, status, payload, tx, db, seq, backend,
                 attempts, results, pre, staged, origin, resolveVars, parserVars, migrateVars, pagesVars>>
nonResolveVars == <<entries, idx, lines, raised, status, payload, tx, db, seq, backend,
                    results, pre, staged, origin, players, modes, parserVars, migrateVars,
                    pagesVars>>
nonStoreVars == <<entries, idx, status, tx, db, seq, backend, attempts, results, pre, staged,
                  origin, mainVars, resolveVars, parserVars, migrateVars, pagesVars>>
nonMigrateVars == <<entries, idx, lines, raised, status, payload, attempts, results, pre,
                    staged, origin, mainVars, resolveVars, parserVars, pagesVars>>
nonParserVars == <<entries, idx, lines, raised, status, payload, tx, db, seq, backend,
                   attempts, results, pre, staged, origin, mainVars, resolveVars, migrateVars, pagesVars>>

\* No document is being parsed.
ParserIdle ==
    /\ doc = [table |-> <<>>, style |-> "closed", events |-> <<>>]
    /\ pos = 1
    /\ parser_rows = <<>>
    /\ in_tr = FALSE
    /\ in_td = FALSE
    /\ current_td = <<>>
    /\ current_row = <<>>

----------------------------------------------------------------------------
(* Bounds of the model *)

MaxEntries == 2
MaxMinigameLines == 1
MaxPlayers == 2
MaxNeighbors == 2
MaxRank == 55
WideWindow == 30
MaxFailures == 1
MaxRows == 2
MaxOverflowLines == 2

----------------------------------------------------------------------------
(* Values *)

None == <<>>
Some(v) == <<v>>

Num(n) == <<"num", n>>
Txt(k) == <<"txt", k>>

Range(s) == {s[i] : i \in 1..Len(s)}

RECURSIVE SeqsUpTo(_, _)
SeqsUpTo(S, n) ==
    IF n = 0 THEN {<<>>}
    ELSE LET shorter == SeqsUpTo(S, n - 1)
         IN  shorter \cup {Append(s, x) : s \in {t \in shorter : Len(t) = n - 1}, x \in S}

\* str.lower() on the account names of the model: every name other than the
\* ones listed is already lowercase.
Lower(name) ==
    CASE name = "XESPIS"   -> "xespis"
      [] name = "Xespis"   -> "xespis"
      [] name = "Tibble49" -> "tibble49"
      [] name = "Zezima"   -> "zezima"
      [] OTHER             -> name

GAME_MODES ==
    {"regular", "ironman", "hardcore_ironman", "ultimate_ironman", "deadman", "seasonal"}

SKILL_NAMES == <<
    "Overall", "Attack", "Defence", "Strength", "Hitpoints", "Ranged",
    "Prayer", "Magic", "Cooking", "Woodcutting", "Fletching", "Fishing",
    "Firemaking", "Crafting", "Smithing", "Mining", "Herblore", "Agility",
    "Thieving", "Slayer", "Farming", "Runecraft", "Hunter", "Construction", "Sailing" >>

MINIGAME_NAMES == <<
    "League Points", "Deadman Points",
    "Bounty Hunter - Hunter", "Bounty Hunter - Rogue",
    "Bounty Hunter (Legacy) - Hunter", "Bounty Hunter (Legacy) - Rogue",
    "Clue Scrolls (all)", "Clue Scrolls (beginner)", "Clue Scrolls (easy)",
    "Clue Scrolls (medium)", "Clue Scrolls (hard)", "Clue Scrolls (elite)",
    "Clue Scrolls (master)", "LMS - Rank", "PvP Arena - Rank",
    "Soul Wars Zeal", "Rifts closed", "Colosseum Glory",
    "Collections Logged", "Theatre of Blood",
    "Theatre of Blood: Hard Mode", "Chambers of Xeric",
    "Chambers of Xeric: Challenge Mode", "Tombs of Amascut",
    "Tombs of Amascut: Expert Mode", "TzKal-Zuk", "TzTok-Jad",
    "Corporeal Beast", "Nightmare", "Phosani's Nightmare",
    "Obor", "Bryophyta", "Mimic", "Hespori", "Skotizo",
    "Scurrius", "Vorkath", "Zalcano", "Wintertodt",
    "Tempoross", "Guardians of the Rift",
    "Abyssal Sire", "Cerberus", "Chaos Elemental", "Chaos Fanatic",
    "Commander Zilyana", "Crazy Archaeologist", "Dagannoth Prime",
    "Dagannoth Rex", "Dagannoth Supreme", "Deranged Archaeologist",
    "Duke Sucellus", "General Graardor", "Giant Mole",
    "Grotesque Guardians", "Kalphite Queen", "King Black Dragon",
    "Kraken", "Kree'Arra", "K'ril Tsutsaroth", "Lunar Chests",
    "Phantom Muspah", "Sarachnis", "Scorpia", "Sol Heredit",
    "Spindel", "Vardorvis", "Vetion", "Venenatis", "Zulrah" >>

ANCHOR_PLAYER == "XESPIS"
ANCHOR_MODE == "regular"
TRACK_AHEAD_COUNT == 10
TRACK_BEHIND_COUNT == 3

BASE_TRACKED_ENTRIES == << <<"tibble49", "regular">>, <<ANCHOR_PLAYER, ANCHOR_MODE>> >>

----------------------------------------------------------------------------
(* The hiscore endpoint: what one GET of index_lite.ws can answer *)

\* A raw line is the result of line.split(","): at least one field.
NormalLine == <<Num(5), Num(5), Num(5)>>
LineShapes ==
    { NormalLine,
      <<Num(-1), Num(-1), Num(-1)>>,
      <<Num(7), Num(7)>>,
      <<Txt(0)>> }

MakeRecord(n, k, shape) == [i \in 1..n |-> IF i = k THEN shape ELSE NormalLine]

\* No line, one line, the skill lines alone, the skill lines and some
\* minigame lines.
LineCounts ==
    {0, 1} \cup (Len(SKILL_NAMES)..(Len(SKILL_NAMES) + MaxMinigameLines))

\* A line of an unranked skill or activity.
UnrankedLine == <<Num(-1), Num(-1), Num(-1)>>

\* The records of the model: n normal lines, or n - 1 normal lines and a last
\* line of another shape, or the record of a player whose Overall is unranked.
Records ==
    {MakeRecord(n, n, shape) : n \in LineCounts, shape \in LineShapes}
        \cup {MakeRecord(Len(SKILL_NAMES) + 1, 1, UnrankedLine)}

\* A response carries an HTTP status and a body; requests.get raising
\* (timeout, connection error) is the response of kind "transport".
Transport == [kind |-> "transport", code |-> 0, body |-> <<>>]
NoResponse == [kind |-> "none", code |-> 0]
StatusOf(resp) == [kind |-> resp.kind, code |-> resp.code]
Http(code, body) == [kind |-> "http", code |-> code, body |-> body]

FullRecord == MakeRecord(Len(SKILL_NAMES) + 1, 0, NormalLine)

Responses ==
    {Transport, Http(404, <<>>), Http(500, <<>>), Http(304, FullRecord)}
        \cup {Http(200, r) : r \in Records}

----------------------------------------------------------------------------
(* fetch_raw *)

\* requests' Response.raise_for_status(): HTTPError for 4xx and 5xx only.
raise_for_status(code) == code >= 400 /\ code < 600

fetch_raw(resp) ==
    IF resp.kind = "transport" THEN [raised |-> "ConnectionError", lines |-> <<>>]
    ELSE IF resp.code = 404 THEN [raised |-> "ValueError", lines |-> <<>>]
    ELSE IF raise_for_status(resp.code) THEN [raised |-> "HTTPError", lines |-> <<>>]
    ELSE [raised |-> "none", lines |-> resp.body]

\* The two conditions of the error taxonomy, as the exceptions that carry them.
NotFound(exc) == exc = "ValueError"
FetchFailed(exc) == exc \in {"HTTPError", "ConnectionError"}

----------------------------------------------------------------------------
(* store_snapshot: parsing *)

\* Variant: the sentinel is kept as a number.
parse_int_keeps_sentinel(value) == IF value[1] = "num" THEN Some(value[2]) ELSE None

\* lines 262-267
parse_int(value) == IF value[1] = "num" /\ value[2] # -1 THEN Some(value[2]) ELSE None

\* parts[1] is read unguarded for a skill line: IndexError on a one-field line.
ParseRaises(ls) == \E i \in 1..Len(ls) : i <= Len(SKILL_NAMES) /\ Len(ls[i]) < 2

Min(a, b) == IF a < b THEN a ELSE b

skill_rows(ls) ==
    [i \in 1..Min(Len(ls), Len(SKILL_NAMES)) |->
        [skill |-> SKILL_NAMES[i],
         rank  |-> parse_int(ls[i][1]),
         level |-> parse_int(ls[i][2]),
         xp    |-> IF Len(ls[i]) > 2 THEN parse_int(ls[i][3]) ELSE None]]

\* Variant: every line beyond the catalog gets the same label.
minigame_rows_one_label(ls) ==
    [m \in 1..(Len(ls) - Len(SKILL_NAMES)) |->
        LET parts == ls[Len(SKILL_NAMES) + m]
        IN  [activity |-> IF m <= Len(MINIGAME_NAMES) THEN MINIGAME_NAMES[m]
                          ELSE "Activity " \o ToString(Len(MINIGAME_NAMES) + 1),
             rank     |-> parse_int(parts[1]),
             score    |-> IF Len(parts) > 1 THEN parse_int(parts[2]) ELSE None]]

\* m is mi + 1 of the code.
minigame_rows(ls) ==
    [m \in 1..(Len(ls) - Len(SKILL_NAMES)) |->
        LET parts == ls[Len(SKILL_NAMES) + m]
        IN  [activity |-> IF m <= Len(MINIGAME_NAMES) THEN MINIGAME_NAMES[m]
                          ELSE "Activity " \o ToString(m),
             rank     |-> parse_int(parts[1]),
             score    |-> IF Len(parts) > 1 THEN parse_int(parts[2]) ELSE None]]

----------------------------------------------------------------------------
(* store_snapshot: the transaction *)

EmptyDb == [snapshots |-> <<>>, skill_data |-> <<>>, minigame_data |-> <<>>]
NoTx == [open |-> FALSE, work |-> EmptyDb]
NoPayload == [skills |-> <<>>, minigames |-> <<>>]

\* No page has been fetched.
NoPages == pages = <<>>

\* No migration is running.
NoMigration ==
    sqlite_file = [exists |-> FALSE, snapshots |-> <<>>, skill_data |-> <<>>,
                   minigame_data |-> <<>>]

MaxOf(S) == IF S = {} THEN 0 ELSE CHOOSE m \in S : \A x \in S : x <= m

\* Variant: every header row gets the same key.
first_primary_key(work, s, be) == 1

\* result.inserted_primary_key[0]: SQLite hands out max(rowid) + 1 of the table
\* as the transaction sees it, PostgreSQL the next value of a sequence that a
\* rollback does not rewind.
inserted_primary_key(work, s, be) ==
    IF be = "postgres" THEN s + 1
    ELSE MaxOf({work.snapshots[i].id : i \in 1..Len(work.snapshots)}) + 1

skill_payload(snap_id, rows) ==
    [i \in 1..Len(rows) |->
        [snapshot_id |-> snap_id, skill |-> rows[i].skill, rank |-> rows[i].rank,
         level |-> rows[i].level, xp |-> rows[i].xp]]

minigame_payload(snap_id, rows) ==
    [i \in 1..Len(rows) |->
        [snapshot_id |-> snap_id, activity |-> rows[i].activity, rank |-> rows[i].rank,
         score |-> rows[i].score]]

\* Variant: an empty parameter list inserts nothing and succeeds.
ExecuteManyAcceptsEmpty(table, rows) == [raised |-> FALSE, table |-> table \o rows]

\* conn.execute(insert(t), rows).  With an empty parameter list SQLAlchemy emits
\* one INSERT ... DEFAULT VALUES, which the NOT NULL snapshot_id column of both
\* child tables rejects (IntegrityError).
ExecuteMany(table, rows) ==
    IF rows = <<>> THEN [raised |-> TRUE, table |-> table]
    ELSE [raised |-> FALSE, table |-> table \o rows]

\* Variant: the statements already run stay in the tables (no transaction).
RollbackKeepsStaged(committed, work) == work

\* engine.begin() leaving the with block on an exception: rollback.
Rollback(committed, work) == committed

\* engine.begin() leaving the with block normally: commit.
Commit(committed, work) == work

\* Variant: the connection stays checked out, its transaction open.
KeepOpen(t) == t

\* Leaving `with engine.begin() as conn` (line 298), by commit or by rollback:
\* the transaction is over and the connection goes back to the pool.
EndOfWith(t) == NoTx

\* Variant: the exception leaves collect().
AbortBatch(i) == [pc |-> "done", idx |-> i]

\* except Exception in the loop of collect(): print FAILED, next entry.
AfterFailure(i) == [pc |-> "loop", idx |-> i + 1]

Result(entry, outcome, snap_id) == [entry |-> entry, outcome |-> outcome, snap |-> snap_id]

----------------------------------------------------------------------------
(* collect(): Spec.  lines and payload are dead once an entry's iteration is  *)
(* over (the next fetch_raw and store_snapshot rebuild them); the model     *)
(* clears them there.                                                       *)

EntryPool == { <<"XESPIS", "regular">>, <<"tibble49", "ironman">> }

Init ==
    /\ NoMigration
    /\ NoPages
    /\ entries \in SeqsUpTo(EntryPool, MaxEntries)
    /\ backend \in {"sqlite", "postgres"}
    /\ idx = 1
    /\ pc = "loop"
    /\ lines = <<>>
    /\ raised = "none"
    /\ status = NoResponse
    /\ payload = NoPayload
    /\ tx = NoTx
    /\ db = EmptyDb
    /\ seq = 0
    /\ attempts = <<>>
    /\ results = <<>>
    /\ pre = EmptyDb
    /\ staged = "none"
    /\ origin = <<>>
    /\ players = <<>>
    /\ modes = <<>>
    /\ neighbors = <<>>
    /\ world = [rank |-> 1, offset |-> 1, twin |-> FALSE, table |-> "dense"]
    /\ ahead_count = TRACK_AHEAD_COUNT
    /\ behind_count = TRACK_BEHIND_COUNT
    /\ anchor_rank = None
    /\ candidate_pages = <<>>
    /\ page_i = 1
    /\ rank_to_player = <<>>
    /\ requested = <<>>
    /\ failures = 0
    /\ failed = {}
    /\ ParserIdle

\* lines 341-345 and, when fetch_raw raises, 351-352
FetchRaw ==
    /\ UNCHANGED nonCollectVars
    /\ pc = "loop"
    /\ idx <= Len(entries)
    /\ \E resp \in Responses :
         LET got == fetch_raw(resp)
         IN  /\ status' = StatusOf(resp)
             /\ raised' = got.raised
             /\ lines' = got.lines
             /\ attempts' = Append(attempts, entries[idx])
             /\ IF got.raised = "none"
                THEN /\ pc' = "store"
                     /\ UNCHANGED <<idx, results>>
                ELSE /\ pc' = AfterFailure(idx).pc
                     /\ idx' = AfterFailure(idx).idx
                     /\ results' = Append(results, Result(entries[idx], got.raised, 0))
    /\ UNCHANGED <<entries, payload, tx, db, seq, backend, pre, staged, origin>>

\* lines 271-296: the rows are parsed before the transaction is opened
StoreParse ==
    /\ UNCHANGED nonCollectVars
    /\ pc = "store"
    /\ pre' = db
    /\ staged' = "none"
    /\ IF ParseRaises(lines)
       THEN /\ pc' = AfterFailure(idx).pc
            /\ idx' = AfterFailure(idx).idx
            /\ results' = Append(results, Result(entries[idx], "IndexError", 0))
            /\ lines' = <<>>
            /\ UNCHANGED payload
       ELSE /\ pc' = "begin"
            /\ payload' = [skills |-> skill_rows(lines), minigames |-> minigame_rows(lines)]
            /\ UNCHANGED <<idx, results, lines>>
    /\ UNCHANGED <<entries, raised, status, tx, db, seq, backend, attempts, origin>>

\* line 298: engine.begin()
Begin ==
    /\ UNCHANGED nonCollectVars
    /\ pc = "begin"
    /\ tx' = [open |-> TRUE, work |-> db]
    /\ pc' = "header"
    /\ UNCHANGED <<entries, idx, lines, raised, status, payload, db, seq, backend,
                   attempts, results, pre, staged, origin>>

\* lines 299-307
InsertHeader ==
    /\ UNCHANGED nonCollectVars
    /\ pc = "header"
    /\ LET snap_id == inserted_primary_key(tx.work, seq, backend)
           row == [id |-> snap_id, player |-> Lower(entries[idx][1]), mode |-> entries[idx][2]]
       IN  /\ tx' = [tx EXCEPT !.work.snapshots = Append(@, row)]
           /\ seq' = snap_id
    /\ pc' = "skills"
    /\ UNCHANGED <<entries, idx, lines, raised, status, payload, db, backend,
                   attempts, results, pre, staged, origin>>

CurrentSnapId == tx.work.snapshots[Len(tx.work.snapshots)].id

\* The exception path out of the with block (lines 298-330), then 351-352.
StoreRaise(at) ==
    /\ db' = Rollback(db, tx.work)
    /\ tx' = EndOfWith(tx)
    /\ staged' = at
    /\ pc' = AfterFailure(idx).pc
    /\ idx' = AfterFailure(idx).idx
    /\ results' = Append(results, Result(entries[idx], "StorageFailure", 0))
    /\ lines' = <<>>
    /\ payload' = NoPayload
    /\ UNCHANGED <<entries, raised, status, seq, backend, attempts, pre, origin>>

\* lines 309-318, 329
InsertSkills ==
    /\ UNCHANGED nonCollectVars
    /\ pc = "skills"
    /\ LET done == ExecuteMany(tx.work.skill_data, skill_payload(CurrentSnapId, payload.skills))
       IN  IF done.raised
           THEN StoreRaise("skills")
           ELSE /\ tx' = [tx EXCEPT !.work.skill_data = done.table]
                /\ pc' = "minigames"
                /\ UNCHANGED <<entries, idx, lines, raised, status, payload, db, seq, backend,
                               attempts, results, pre, staged, origin>>

\* lines 319-327, 330
InsertMinigames ==
    /\ UNCHANGED nonCollectVars
    /\ pc = "minigames"
    /\ LET done == ExecuteMany(tx.work.minigame_data,
                               minigame_payload(CurrentSnapId, payload.minigames))
       IN  IF done.raised
           THEN StoreRaise("minigames")
           ELSE /\ tx' = [tx EXCEPT !.work.minigame_data = done.table]
                /\ pc' = "commit"
                /\ UNCHANGED <<entries, idx, lines, raised, status, payload, db, seq, backend,
                               attempts, results, pre, staged, origin>>

\* leaving the with block normally, then lines 332 and 347-350
CommitTx ==
    /\ UNCHANGED nonCollectVars
    /\ pc = "commit"
    /\ db' = Commit(db, tx.work)
    /\ tx' = EndOfWith(tx)
    /\ origin' = Append(origin, <<CurrentSnapId, Len(lines)>>)
    /\ results' = Append(results, Result(entries[idx], "OK", CurrentSnapId))
    /\ idx' = idx + 1
    /\ pc' = "loop"
    /\ lines' = <<>>
    /\ payload' = NoPayload
    /\ UNCHANGED <<entries, raised, status, seq, backend, attempts, pre, staged>>

\* A fault of the storage engine (connection lost, disk full, constraint) at
\* engine.begin(), at any statement of the transaction, or at the commit.
StoreFault ==
    /\ UNCHANGED nonCollectVars
    /\ pc \in {"begin", "header", "skills", "minigames", "commit"}
    /\ StoreRaise(pc)

\* the for loop of collect() runs out of entries
Finish ==
    /\ UNCHANGED nonCollectVars
    /\ pc = "loop"
    /\ idx > Len(entries)
    /\ pc' = "done"
    /\ UNCHANGED <<entries, idx, lines, raised, status, payload, tx, db, seq, backend,
                   attempts, results, pre, staged, origin>>

Next ==
    \/ FetchRaw
    \/ StoreParse
    \/ Begin
    \/ InsertHeader
    \/ InsertSkills
    \/ InsertMinigames
    \/ CommitTx
    \/ StoreFault
    \/ Finish

Spec == Init /\ [][Next]_vars

Last(s) == s[Len(s)]

\* C1: when store_snapshot fails after the snapshot header was staged (a fault
\* at the skill insert, at the minigame insert or at the commit), the committed
\* storage equals the storage before the call, no transaction stays open, and
\* the caller gets the failure (collect records it for the entry).
C1_FailedStoreLeavesNoTrace ==
    (results # <<>> /\ Last(results).outcome = "StorageFailure"
        /\ staged \in {"skills", "minigames", "commit"})
    => /\ db = pre
       /\ ~tx.open
       /\ Last(results).snap = 0

\* A store that failed at the minigame insert, after an earlier snapshot had
\* been committed.
C1_Witness ==
    /\ results # <<>>
    /\ Last(results).outcome = "StorageFailure"
    /\ staged = "minigames"
    /\ pre.snapshots # <<>>

ChildrenOf(d, id) ==
    Cardinality({i \in 1..Len(d.skill_data) : d.skill_data[i].snapshot_id = id})
    + Cardinality({i \in 1..Len(d.minigame_data) : d.minigame_data[i].snapshot_id = id})

SnapshotsWithId(d, id) == {j \in 1..Len(d.snapshots) : d.snapshots[j].id = id}

\* C2: in every committed storage state, every skill_data and minigame_data
\* row references exactly one snapshot row, and every snapshot row has as many
\* child rows as its raw record had lines, and at least one.
C2_ChildrenMatchSnapshots ==
    /\ \A i \in 1..Len(db.skill_data) :
           Cardinality(SnapshotsWithId(db, db.skill_data[i].snapshot_id)) = 1
    /\ \A i \in 1..Len(db.minigame_data) :
           Cardinality(SnapshotsWithId(db, db.minigame_data[i].snapshot_id)) = 1
    /\ \A j \in 1..Len(db.snapshots) :
           /\ ChildrenOf(db, db.snapshots[j].id) >= 1
           /\ \E o \in Range(origin) :
                  o[1] = db.snapshots[j].id /\ o[2] = ChildrenOf(db, db.snapshots[j].id)

\* A snapshot committed right after a failed ingest.
C2_Witness ==
    /\ Len(results) = 2
    /\ results[1].outcome = "StorageFailure"
    /\ results[2].outcome = "OK"
    /\ Len(db.snapshots) = 1

\* C3: a collect run attempts the entries one fetch each, in list order,
\* whatever fails; when it ends every entry was attempted exactly once, and
\* every entry that was fetched and stored has its snapshot committed.
C3_BatchNeverAborts ==
    /\ Len(attempts) <= Len(entries)
    /\ attempts = SubSeq(entries, 1, Len(attempts))
    /\ pc = "done" => (attempts = entries /\ Len(results) = Len(entries))
    /\ \A i \in 1..Len(results) :
           /\ results[i].entry = entries[i]
           /\ results[i].outcome = "OK" =>
                 \E j \in 1..Len(db.snapshots) :
                     db.snapshots[j] = [id |-> results[i].snap,
                                        player |-> Lower(entries[i][1]),
                                        mode |-> entries[i][2]]

\* A finished run whose first entry was not found and whose second entry was
\* ingested.
C3_Witness ==
    /\ pc = "done"
    /\ Len(results) = 2
    /\ results[1].outcome = "ValueError"
    /\ results[2].outcome = "OK"

\* C4: fetch_raw surfaces a 404 response as NotFound, every other non-2xx
\* response and every transport failure as FetchFailed, never both, and
\* returns lines only for a 2xx response.
C4_FetchRawClassifies ==
    status.kind # "none" =>
        /\ (status.kind = "http" /\ status.code = 404) => NotFound(raised)
        /\ (status.kind = "transport"
              \/ (status.kind = "http" /\ status.code # 404
                    /\ (status.code < 200 \/ status.code > 299))) => FetchFailed(raised)
        /\ ~(NotFound(raised) /\ FetchFailed(raised))
        /\ raised = "none" => (status.kind = "http" /\ status.code >= 200 /\ status.code <= 299)

----------------------------------------------------------------------------
(* build_default_entries *)

\* Variant: the key keeps the spelling of the name.
EntryKeyCaseSensitive(entry) == <<entry[1], entry[2]>>

\* line 253: key = (player.lower(), mode)
EntryKey(entry) == <<Lower(entry[1]), entry[2]>>

\* lines 250-257: the loop over entries[i..], with the seen set and the
\* deduped list built so far
RECURSIVE DedupLoop(_, _, _, _)
DedupLoop(all, i, seen, deduped) ==
    IF i > Len(all) THEN deduped
    ELSE IF EntryKey(all[i]) \in seen
         THEN DedupLoop(all, i + 1, seen, deduped)
         ELSE DedupLoop(all, i + 1, seen \cup {EntryKey(all[i])}, Append(deduped, all[i]))

\* lines 238-242: entries.extend((name, ANCHOR_MODE) for name in neighbors)
Extended(base, names) == base \o [i \in 1..Len(names) |-> <<names[i], ANCHOR_MODE>>]

build_default_entries(names) == DedupLoop(Extended(BASE_TRACKED_ENTRIES, names), 1, {}, <<>>)

----------------------------------------------------------------------------
(* main(): SpecEntries *)

Names == {"tibble49", "Tibble49", "XESPIS", "xespis", "zezima"}
ModeArgs == {"regular", "ironman", "casual"}

\* lines 388-389: while len(modes) < len(players): modes.append("regular")
PadModes(ms, n) == ms \o [i \in 1..(n - Len(ms)) |-> "regular"]

\* line 390: list(zip(players, modes))
Zip(ps, ms) == [i \in 1..Min(Len(ps), Len(ms)) |-> <<ps[i], ms[i]>>]

InitEntries ==
    /\ NoMigration
    /\ NoPages
    /\ players \in SeqsUpTo(Names, MaxPlayers)
    /\ modes \in SeqsUpTo(ModeArgs, MaxPlayers)
    /\ neighbors = <<>>
    /\ entries = <<>>
    /\ pc = "main"
    /\ idx = 1
    /\ lines = <<>>
    /\ raised = "none"
    /\ status = NoResponse
    /\ payload = NoPayload
    /\ tx = NoTx
    /\ db = EmptyDb
    /\ seq = 0
    /\ backend = "sqlite"
    /\ attempts = <<>>
    /\ results = <<>>
    /\ pre = EmptyDb
    /\ staged = "none"
    /\ origin = <<>>
    /\ world = [rank |-> 1, offset |-> 1, twin |-> FALSE, table |-> "dense"]
    /\ ahead_count = TRACK_AHEAD_COUNT
    /\ behind_count = TRACK_BEHIND_COUNT
    /\ anchor_rank = None
    /\ candidate_pages = <<>>
    /\ page_i = 1
    /\ rank_to_player = <<>>
    /\ requested = <<>>
    /\ failures = 0
    /\ failed = {}
    /\ ParserIdle

\* lines 378-379, with the resolver's answer any sequence of names
BuildDefault ==
    /\ UNCHANGED nonMainVars
    /\ pc = "main"
    /\ players = <<>>
    /\ \E names \in SeqsUpTo(Names, MaxNeighbors) :
          /\ neighbors' = names
          /\ entries' = build_default_entries(names)
    /\ pc' = "validate"
    /\ UNCHANGED <<players, modes>>

\* lines 384-390
BuildExplicit ==
    /\ UNCHANGED nonMainVars
    /\ pc = "main"
    /\ players # <<>>
    /\ entries' = Zip(players, PadModes(modes, Len(players)))
    /\ pc' = "validate"
    /\ UNCHANGED <<players, modes, neighbors>>

\* lines 393-399: an unknown mode ends main() before collect() is called
Validate ==
    /\ UNCHANGED nonMainVars
    /\ pc = "validate"
    /\ pc' = IF \E i \in 1..Len(entries) : entries[i][2] \notin GAME_MODES
             THEN "exit" ELSE "collect"
    /\ UNCHANGED <<entries, players, modes, neighbors>>

NextEntries ==
    \/ BuildDefault
    \/ BuildExplicit
    \/ Validate

SpecEntries == InitEntries /\ [][NextEntries]_vars

\* The normalized identity of a tracked entry: lowercased account name, mode.
Identity(entry) == <<Lower(entry[1]), entry[2]>>

DistinctIdentities(es) ==
    \A i, j \in 1..Len(es) : i # j => Identity(es[i]) # Identity(es[j])

\* C5: the list main() hands to collect() holds no two entries of the same
\* normalized identity, on the default path and on the --player path.
C5_HandedEntriesDistinct == pc = "collect" => DistinctIdentities(entries)

\* The positions of a list that hold the first occurrence of their identity.
FirstOccurrences(all) ==
    {i \in 1..Len(all) : \A j \in 1..(i - 1) : Identity(all[j]) # Identity(all[i])}

\* C6: the default build returns exactly the first occurrences, by normalized
\* identity, of the base roster followed by (name, ANCHOR_MODE) for each
\* resolved name, in their order and spelling; no two of them share an identity.
C6_StableDedup ==
    (pc \in {"validate", "collect"} /\ players = <<>>) =>
        LET all == Extended(BASE_TRACKED_ENTRIES, neighbors)
            keep == FirstOccurrences(all)
        IN  /\ Len(entries) = Cardinality(keep)
            /\ \A k \in 1..Len(entries) :
                   \E i \in keep : /\ Cardinality({j \in keep : j < i}) = k - 1
                                   /\ entries[k] = all[i]
            /\ DistinctIdentities(entries)

\* A build in which a resolved name repeats a base entry in another spelling
\* and a second resolved name is new.
C6_Witness ==
    /\ pc = "collect"
    /\ players = <<>>
    /\ neighbors = <<"Tibble49", "zezima">>
    /\ entries = << <<"tibble49", "regular">>, <<"XESPIS", "regular">>, <<"zezima", "regular">> >>

----------------------------------------------------------------------------
(* The overall hiscore table: what one GET of /overall?table=0&page=p answers *)

PageSize == 25

\* What the pages of the table hold during one call:
\*   dense  every page lists its 25 consecutive ranks;
\*   moved  the same, but the anchor has left the rank its record reports;
\*   stale  every page also lists the first rank of the next page, under the
\*          name that held it before (upstream inconsistency);
\*   blank  every page parses to zero rows;
\*   down   every page request raises.
Tables == {"dense", "moved", "stale", "blank", "down"}

\* A leaderboard world: the anchor's rank, whether the upstream numbers its
\* pages from 0 or from 1 (offset), whether two of the anchor's neighbours
\* carry names that differ in case only (twin), and what the pages hold.
Worlds ==
    {w \in [rank : 1..MaxRank, offset : {0, 1}, twin : BOOLEAN, table : Tables] :
        w.twin => w.table = "dense"}

\* The name the table shows at rank k.  The table spells the anchor "Xespis".
NameAt(w, k) ==
    IF k = w.rank /\ w.table # "moved" THEN "Xespis"
    ELSE IF w.twin /\ k = w.rank - 1 THEN "zezima"
    ELSE IF w.twin /\ k = w.rank - 2 THEN "Zezima"
    ELSE "p" \o ToString(k)

\* The rows OverallTableParser yields for page p: 25 consecutive ranks.  With
\* pages numbered from 1, page 0 mirrors page 1 (comment at line 196).
FirstRankOf(w, p) == IF p < w.offset THEN 1 ELSE (p - w.offset) * PageSize + 1

DenseRows(w, p) ==
    [i \in 1..PageSize |-> <<FirstRankOf(w, p) + i - 1, NameAt(w, FirstRankOf(w, p) + i - 1)>>]

\* The name a stale row shows at rank k.
StaleNameAt(k) == "old" \o ToString(k)

PageRows(w, p) ==
    IF w.table = "blank" THEN <<>>
    ELSE IF w.table = "stale"
         THEN Append(DenseRows(w, p), <<FirstRankOf(w, p) + PageSize,
                                        StaleNameAt(FirstRankOf(w, p) + PageSize)>>)
         ELSE DenseRows(w, p)

\* The anchor's raw record as index_lite.ws answers it: the first field of
\* the first line is the overall rank.
RankLine(field) == <<field, Num(2277), Num(5)>>

AnchorResponses(w) ==
    { Transport, Http(404, <<>>), Http(500, <<>>), Http(200, <<>>),
      Http(200, <<RankLine(Txt(0))>>), Http(200, <<RankLine(Num(-1))>>),
      Http(200, <<RankLine(Num(0))>>), Http(200, <<RankLine(Num(-2))>>),
      Http(200, <<RankLine(Num(w.rank))>>) }

----------------------------------------------------------------------------
(* get_overall_rank and get_neighbor_players *)

Max(a, b) == IF a > b THEN a ELSE b

\* lines 157-170
get_overall_rank(resp) ==
    LET got == fetch_raw(resp)
    IN  IF got.raised # "none" THEN None
        ELSE IF got.lines = <<>> THEN None
        ELSE parse_int(got.lines[1][1])

\* line 190: not anchor_rank
Falsy(opt) == opt = None \/ opt = Some(0)

\* line 193
start_rank(r, ahead) == Max(1, r - ahead)

\* Variant: the interval ends one rank early.
end_rank_one_short(r, behind) == r + behind - 1

\* line 194
end_rank(r, behind) == r + behind

\* lines 197-198
PageOf(rank) == Max(1, ((rank - 1) \div PageSize) + 1)

\* Variant: the range is the interval's own pages.
PageIndexRangeUnpadded(page_start, page_end) == page_start..page_end

\* line 201: range(max(1, page_start - 1), page_end + 2)
PageIndexRange(page_start, page_end) == Max(1, page_start - 1)..(page_end + 1)

\* Variant: the page itself is tried before the page below it.
AroundSelfFirst(page_index) == <<page_index, page_index - 1, page_index + 1>>

\* line 202
Around(page_index) == <<page_index - 1, page_index, page_index + 1>>

\* Variant: a page already among the candidates is added again.
RECURSIVE AddCandidatesAgain(_, _, _)
AddCandidatesAgain(acc, cands, i) ==
    IF i > Len(cands) THEN acc
    ELSE IF cands[i] >= 0
         THEN AddCandidatesAgain(Append(acc, cands[i]), cands, i + 1)
         ELSE AddCandidatesAgain(acc, cands, i + 1)

\* lines 202-204, for the candidates of one page_index
RECURSIVE AddCandidates(_, _, _)
AddCandidates(acc, cands, i) ==
    IF i > Len(cands) THEN acc
    ELSE IF cands[i] >= 0 /\ cands[i] \notin Range(acc)
         THEN AddCandidates(Append(acc, cands[i]), cands, i + 1)
         ELSE AddCandidates(acc, cands, i + 1)

\* lines 199-204: the outer loop, over an ascending range of page_index
RECURSIVE CandidateLoop(_, _)
CandidateLoop(indices, acc) ==
    IF indices = {} THEN acc
    ELSE LET page_index == CHOOSE p \in indices : \A q \in indices : p <= q
         IN  CandidateLoop(indices \ {page_index}, AddCandidates(acc, Around(page_index), 1))

\* Variant: only the pages that hold the interval under 1-based numbering.
candidate_pages_one_based(s, e) == [i \in 1..(PageOf(e) - PageOf(s) + 1) |-> PageOf(s) + i - 1]

candidate_pages_for(s, e) == CandidateLoop(PageIndexRange(PageOf(s), PageOf(e)), <<>>)

\* Variant: a rank keeps the first name it was given.
RECURSIVE MergeRowsKeepFirst(_, _, _, _, _)
MergeRowsKeepFirst(map, rows, i, s, e) ==
    IF i > Len(rows) THEN map
    ELSE IF s <= rows[i][1] /\ rows[i][1] <= e /\ rows[i][2] # ""
         THEN MergeRowsKeepFirst(map @@ (rows[i][1] :> rows[i][2]), rows, i + 1, s, e)
         ELSE MergeRowsKeepFirst(map, rows, i + 1, s, e)

\* lines 215-217
RECURSIVE MergeRows(_, _, _, _, _)
MergeRows(map, rows, i, s, e) ==
    IF i > Len(rows) THEN map
    ELSE IF s <= rows[i][1] /\ rows[i][1] <= e /\ rows[i][2] # ""
         THEN MergeRows((rows[i][1] :> rows[i][2]) @@ map, rows, i + 1, s, e)
         ELSE MergeRows(map, rows, i + 1, s, e)

\* Variant: the loop never breaks.
NeverCovered(map, s, e) == FALSE

\* line 219: required_ranks.issubset(rank_to_player.keys())
WindowCovered(map, s, e) == (s..e) \subseteq DOMAIN map

\* lines 225-229
RECURSIVE OrderedNames(_, _, _, _)
OrderedNames(map, rank, e, acc) ==
    IF rank > e THEN acc
    ELSE IF rank \in DOMAIN map /\ Lower(map[rank]) \notin {Lower(n) : n \in Range(acc)}
         THEN OrderedNames(map, rank + 1, e, Append(acc, map[rank]))
         ELSE OrderedNames(map, rank + 1, e, acc)

\* Variant: the anchor is appended whether or not it is among the names.
BuildNamesAlwaysAppends(map, anchor_player, s, e) ==
    IF DOMAIN map = {} THEN <<>>
    ELSE Append(OrderedNames(map, s, e, <<>>), anchor_player)

\* Variant: an empty map still yields the anchor.
BuildNamesOfEmptyMap(map, anchor_player, s, e) ==
    LET ordered_names == OrderedNames(map, s, e, <<>>)
    IN  IF Lower(anchor_player) \notin {Lower(n) : n \in Range(ordered_names)}
        THEN Append(ordered_names, anchor_player)
        ELSE ordered_names

\* lines 222-234
BuildNames(map, anchor_player, s, e) ==
    IF DOMAIN map = {} THEN <<>>
    ELSE LET ordered_names == OrderedNames(map, s, e, <<>>)
         IN  IF Lower(anchor_player) \notin {Lower(n) : n \in Range(ordered_names)}
             THEN Append(ordered_names, anchor_player)
             ELSE ordered_names

----------------------------------------------------------------------------
(* get_neighbor_players(ANCHOR_PLAYER, ahead_count, behind_count): SpecResolve *)

WindowSizes(usual) == {0, usual, WideWindow}

StartRank == start_rank(anchor_rank[1], ahead_count)
EndRank == end_rank(anchor_rank[1], behind_count)

InitResolve ==
    /\ NoMigration
    /\ NoPages
    /\ world \in Worlds
    /\ ahead_count \in WindowSizes(TRACK_AHEAD_COUNT)
    /\ behind_count \in {0, TRACK_BEHIND_COUNT}
    /\ anchor_rank = None
    /\ candidate_pages = <<>>
    /\ page_i = 1
    /\ rank_to_player = <<>>
    /\ requested = <<>>
    /\ failures = 0
    /\ failed = {}
    /\ ParserIdle
    /\ neighbors = <<>>
    /\ pc = "rank"
    /\ entries = <<>>
    /\ idx = 1
    /\ lines = <<>>
    /\ raised = "none"
    /\ status = NoResponse
    /\ payload = NoPayload
    /\ tx = NoTx
    /\ db = EmptyDb
    /\ seq = 0
    /\ backend = "sqlite"
    /\ attempts = <<>>
    /\ results = <<>>
    /\ pre = EmptyDb
    /\ staged = "none"
    /\ origin = <<>>
    /\ players = <<>>
    /\ modes = <<>>

\* lines 189-207
ResolveRank ==
    /\ pc = "rank"
    /\ \E resp \in AnchorResponses(world) :
         LET r == get_overall_rank(resp)
         IN  /\ anchor_rank' = r
             /\ attempts' = Append(attempts, <<ANCHOR_PLAYER, ANCHOR_MODE>>)
             /\ IF Falsy(r)
                THEN /\ pc' = "returned"
                     /\ UNCHANGED candidate_pages
                ELSE /\ pc' = "pages"
                     /\ candidate_pages' =
                            candidate_pages_for(start_rank(r[1], ahead_count),
                                                end_rank(r[1], behind_count))
    /\ UNCHANGED <<world, ahead_count, behind_count, page_i, rank_to_player, requested,
                   failures, failed, neighbors>>
    /\ UNCHANGED nonResolveVars

\* Leaving the for loop of lines 209-220, then lines 222-234.
LoopStep(map, leave) ==
    IF leave \/ page_i = Len(candidate_pages)
    THEN /\ pc' = "returned"
         /\ neighbors' = BuildNames(map, ANCHOR_PLAYER, StartRank, EndRank)
         /\ UNCHANGED page_i
    ELSE /\ page_i' = page_i + 1
         /\ UNCHANGED <<pc, neighbors>>

\* lines 209-220, one iteration whose fetch_overall_page_rows returns rows
FetchPage ==
    /\ pc = "pages"
    /\ world.table # "down"
    /\ LET page == candidate_pages[page_i]
           map == MergeRows(rank_to_player, PageRows(world, page), 1, StartRank, EndRank)
       IN  /\ requested' = Append(requested, page)
           /\ rank_to_player' = map
           /\ LoopStep(map, WindowCovered(map, StartRank, EndRank))
    /\ UNCHANGED <<world, ahead_count, behind_count, anchor_rank, candidate_pages, failures,
                   failed, attempts>>
    /\ UNCHANGED nonResolveVars

\* Variant: a failed fetch ends the loop.
FailedFetchAborts == TRUE

\* lines 212-213: except Exception: continue
FailedFetchLeaves == FALSE

\* lines 209-213, one iteration whose fetch_overall_page_rows raises: continue
FetchPageFails ==
    /\ pc = "pages"
    /\ failures < MaxFailures \/ world.table = "down"
    /\ failures' = failures + 1
    /\ failed' = failed \cup {candidate_pages[page_i]}
    /\ requested' = Append(requested, candidate_pages[page_i])
    /\ LoopStep(rank_to_player, FailedFetchLeaves)
    /\ UNCHANGED <<world, ahead_count, behind_count, anchor_rank, candidate_pages,
                   rank_to_player, attempts>>
    /\ UNCHANGED nonResolveVars

NextResolve ==
    \/ ResolveRank
    \/ FetchPage
    \/ FetchPageFails

SpecResolve == InitResolve /\ [][NextResolve]_vars

\* The target rank interval of the call, from the anchor's rank and the window.
WindowLow == IF anchor_rank[1] - ahead_count < 1 THEN 1 ELSE anchor_rank[1] - ahead_count
WindowHigh == anchor_rank[1] + behind_count

\* The names the table shows at the ranks of the interval, in rank order.
WindowNames == [k \in 1..(WindowHigh - WindowLow + 1) |-> NameAt(world, WindowLow + k - 1)]

RankKnown == pc \in {"pages", "returned"} /\ anchor_rank # None /\ anchor_rank[1] >= 1

NamesDistinct ==
    \A i, j \in WindowLow..WindowHigh : i # j => NameAt(world, i) # NameAt(world, j)

NamesDistinctIgnoringCase ==
    \A i, j \in WindowLow..WindowHigh :
        i # j => Lower(NameAt(world, i)) # Lower(NameAt(world, j))

\* C7 as stated: when every page fetch succeeds, over dense pages with pairwise
\* distinct names and the anchor at rank r, get_neighbor_players returns
\* exactly the names at ranks max(1, r - ahead) to r + behind, in rank order.
C7_WindowComplete ==
    (pc = "returned" /\ RankKnown /\ failures = 0 /\ world.table = "dense" /\ NamesDistinct)
    => neighbors = WindowNames

\* C7, amended: the same, for names pairwise distinct when compared without
\* regard to case.
C7_WindowCompleteIgnoringCase ==
    (pc = "returned" /\ RankKnown /\ failures = 0 /\ world.table = "dense"
       /\ NamesDistinctIgnoringCase)
    => neighbors = WindowNames

\* The anchor at rank 50 with 10 ahead and 3 behind: ranks 40 to 53.
C7_Witness ==
    /\ pc = "returned"
    /\ RankKnown
    /\ failures = 0
    /\ world.rank = 50 /\ ahead_count = 10 /\ behind_count = 3 /\ ~world.twin
    /\ Len(neighbors) = 14
    /\ neighbors[1] = "p40"
    /\ neighbors[11] = "Xespis"
    /\ neighbors[14] = "p53"

HasEveryRank(map) == \A k \in WindowLow..WindowHigh : k \in DOMAIN map

\* C8: a page is requested only while some rank of the interval is missing
\* from the map, and the call returns only once every rank of the interval is
\* in the map or every candidate page was requested.
C8_EarlyTermination ==
    /\ (pc = "pages" /\ RankKnown) => ~HasEveryRank(rank_to_player)
    /\ (pc = "returned" /\ RankKnown) =>
          \/ HasEveryRank(rank_to_player)
          \/ Len(requested) = Len(candidate_pages)

\* A call that stopped before its candidates ran out, one failed fetch included.
C8_Witness ==
    /\ pc = "returned"
    /\ RankKnown
    /\ HasEveryRank(rank_to_player)
    /\ failures = 1
    /\ Len(requested) >= 2
    /\ Len(requested) < Len(candidate_pages)

\* C9: the page indices requested in one call are strictly increasing.
C9_PagesAscending ==
    \A i, j \in 1..Len(requested) : i < j => requested[i] < requested[j]

\* A call that requested five pages, one of which failed.
C9_Witness ==
    /\ Len(requested) >= 5
    /\ failures = 1

\* The 1-based page that holds a rank when a page holds PageSize ranks.
PageHolding(rank) == ((rank - 1) \div PageSize) + 1

\* C10 as stated: the candidates are exactly the pages of the interval and one
\* page on each side.
C10_PaddedByOne ==
    RankKnown =>
        Range(candidate_pages) = (PageHolding(WindowLow) - 1)..(PageHolding(WindowHigh) + 1)

\* C10, amended: the candidates are exactly the pages of the interval and two
\* pages on each side, not below page 0, each of them once.
C10_PaddedByTwo ==
    RankKnown =>
        /\ Range(candidate_pages) =
              Max(0, PageHolding(WindowLow) - 2)..(PageHolding(WindowHigh) + 2)
        /\ Len(candidate_pages) = Cardinality(Range(candidate_pages))

\* The anchor at rank 50 with 10 ahead and 3 behind: the interval lies on
\* pages 2 and 3, the candidates are pages 0 to 5.
C10_Witness ==
    /\ pc = "pages"
    /\ anchor_rank = Some(50) /\ ahead_count = 10 /\ behind_count = 3
    /\ candidate_pages = <<0, 1, 2, 3, 4, 5>>

----------------------------------------------------------------------------
(* get_neighbor_players: when the anchor's rank or the pages are unavailable *)

\* A rank of the leaderboard: a positive integer.
RankUsable == anchor_rank # None /\ anchor_rank[1] >= 1

\* C11: once get_overall_rank has answered without a usable rank (the fetch
\* failed, the record is empty, or its first field is no rank), the call has
\* returned the empty sequence and has requested no leaderboard page.
C11_NoRankNoFetch ==
    (pc \in {"pages", "returned"} /\ ~RankUsable)
    => (pc = "returned" /\ neighbors = <<>> /\ requested = <<>>)

\* The map of the same run in which every page whose fetch raised had
\* returned an empty table instead: lines 209-220 over candidate_pages.
RECURSIVE ReplayLoop(_, _)
ReplayLoop(map, i) ==
    IF i > Len(candidate_pages) THEN map
    ELSE LET page == candidate_pages[i]
             rows == IF page \in failed THEN <<>> ELSE PageRows(world, page)
             merged == MergeRows(map, rows, 1, StartRank, EndRank)
         IN  IF WindowCovered(merged, StartRank, EndRank) THEN merged
             ELSE ReplayLoop(merged, i + 1)

ResultWithEmptyPages == BuildNames(ReplayLoop(<<>>, 1), ANCHOR_PLAYER, StartRank, EndRank)

\* C12: a page fetch that raises counts as a page without rows.  The pages
\* requested are the candidates in order with none left out, the call never
\* returns on a failed fetch while candidates remain, and what it returns is
\* what the same run returns when each failed page yields an empty table.
C12_FailedPageIsEmptyPage ==
    /\ requested = SubSeq(candidate_pages, 1, Len(requested))
    /\ (pc = "returned" /\ requested # <<>> /\ Last(requested) \in failed)
           => Len(requested) = Len(candidate_pages)
    /\ (pc = "returned" /\ ~Falsy(anchor_rank)) => neighbors = ResultWithEmptyPages

\* A call whose first request failed and whose later pages filled the window.
C12_Witness ==
    /\ pc = "returned"
    /\ RankKnown
    /\ requested[1] \in failed
    /\ Last(requested) \notin failed
    /\ HasEveryRank(rank_to_player)
    /\ Len(neighbors) > 1

----------------------------------------------------------------------------
(* get_neighbor_players: the shape of a non-empty result *)

AnchorPositions == {i \in 1..Len(neighbors) : Lower(neighbors[i]) = Lower(ANCHOR_PLAYER)}

AnchorResolved == \E k \in DOMAIN rank_to_player : Lower(rank_to_player[k]) = Lower(ANCHOR_PLAYER)

\* C13: a non-empty result holds no two names that are equal when compared
\* without regard to case, holds the anchor's name exactly once (compared the
\* same way), and ends with the anchor when no rank of the window resolved to
\* the anchor's name.
C13_AnchorOnceNoDuplicates ==
    (pc = "returned" /\ neighbors # <<>>) =>
        /\ \A i, j \in 1..Len(neighbors) :
               i # j => Lower(neighbors[i]) # Lower(neighbors[j])
        /\ Cardinality(AnchorPositions) = 1
        /\ ~AnchorResolved => Last(neighbors) = ANCHOR_PLAYER

\* The anchor at rank 50 is gone from the table: the 14 names of ranks 40 to
\* 53 are followed by the anchor.
C13_Witness ==
    /\ pc = "returned"
    /\ world.table = "moved" /\ world.rank = 50 /\ ahead_count = 10 /\ behind_count = 3
    /\ anchor_rank = Some(50)
    /\ failures = 0
    /\ ~AnchorResolved
    /\ Len(neighbors) = 15
    /\ neighbors[11] = "p50"
    /\ neighbors[15] = "XESPIS"

\* A requested page that gave the loop at least one row.
Yields(page) == page \notin failed /\ PageRows(world, page) # <<>>

\* C14: when the anchor's rank is known and no requested page yielded a row
\* (each fetch raised or parsed to zero rows), the call returns the empty
\* sequence, without the anchor, and build_default_entries makes the base
\* roster of it.
C14_NoDataNoNeighbors ==
    (pc = "returned" /\ ~Falsy(anchor_rank)
        /\ \A i \in 1..Len(requested) : ~Yields(requested[i]))
    => /\ neighbors = <<>>
       /\ build_default_entries(neighbors) = BASE_TRACKED_ENTRIES

\* Every candidate page was requested and every request raised.
C14_Witness ==
    /\ pc = "returned"
    /\ RankKnown
    /\ world.table = "down"
    /\ Len(requested) = Len(candidate_pages)
    /\ failures = Len(requested)
    /\ failures >= 4
    /\ neighbors = <<>>

\* Every candidate page was requested and parsed to zero rows.
C14_WitnessBlank ==
    /\ pc = "returned"
    /\ RankKnown
    /\ world.table = "blank"
    /\ failures = 0
    /\ Len(requested) = Len(candidate_pages)
    /\ neighbors = <<>>

----------------------------------------------------------------------------
(* get_neighbor_players: one rank listed on several pages *)

\* The rows the call got for each page it requested, in request order.
RowsGot ==
    [i \in 1..Len(requested) |->
        IF requested[i] \in failed THEN <<>> ELSE PageRows(world, requested[i])]

\* The name a page's rows list at rank k (the last row of that rank), ""
\* when they do not list it.
NameIn(got, k) ==
    LET hits == {r \in 1..Len(got) : got[r][1] = k}
    IN  IF hits = {} THEN "" ELSE got[MaxOf(hits)][2]

\* Rank k's name on each requested page.
NamesOf(fetched, k) == [i \in 1..Len(fetched) |-> NameIn(fetched[i], k)]

Listing(names) == {i \in 1..Len(names) : names[i] # ""}

Conflict(names) == \E i, j \in Listing(names) : names[i] # names[j]

\* C15: when two fetched pages list the same rank of the window under
\* different names, the map and the result hold the name of the page fetched
\* later, and the result holds a name that page displaced only where another
\* rank resolved to it.
C15_LastFetchWins ==
    (pc = "returned" /\ RankKnown) =>
        LET fetched == RowsGot
        IN  \A k \in WindowLow..WindowHigh :
                LET names == NamesOf(fetched, k)
                    later == names[MaxOf(Listing(names))]
                IN  Conflict(names) =>
                        /\ rank_to_player[k] = later
                        /\ later \in Range(neighbors)
                        /\ \A i \in Listing(names) :
                               (names[i] # later /\ names[i] \in Range(neighbors))
                               => \E j \in DOMAIN rank_to_player :
                                      j # k /\ rank_to_player[j] = names[i]

\* The anchor at rank 24 with 3 behind: pages 0 and 1 list rank 26 under its
\* former name, page 2 under its present one.
C15_Witness ==
    /\ pc = "returned"
    /\ world.table = "stale" /\ world.rank = 24 /\ world.offset = 1
    /\ anchor_rank = Some(24) /\ behind_count = 3
    /\ requested = <<0, 1, 2>>
    /\ failures = 0
    /\ Conflict(NamesOf(RowsGot, 26))
    /\ "p26" \in Range(neighbors)
    /\ "old26" \notin Range(neighbors)

----------------------------------------------------------------------------
(* Text as OverallTableParser handles it *)

\* A text is a sequence of characters.  "sup2" stands for the character
\* U+00B2, which str.isdigit() accepts and int() rejects.
Decimals == <<"0", "1", "2", "3", "4", "5", "6", "7", "8", "9">>

IsDecimal(c) == c \in Range(Decimals)

DecimalValue(c) == (CHOOSE i \in 1..Len(Decimals) : Decimals[i] = c) - 1

IsSpace(c) == c = " "

\* str.isdigit()
isdigit(text) ==
    /\ text # <<>>
    /\ \A i \in 1..Len(text) : IsDecimal(text[i]) \/ text[i] = "sup2"

\* str.split() without argument
RECURSIVE SplitWords(_, _, _, _)
SplitWords(text, i, word, acc) ==
    IF i > Len(text) THEN (IF word = <<>> THEN acc ELSE Append(acc, word))
    ELSE IF IsSpace(text[i])
         THEN SplitWords(text, i + 1, <<>>, IF word = <<>> THEN acc ELSE Append(acc, word))
         ELSE SplitWords(text, i + 1, Append(word, text[i]), acc)

\* " ".join(words)
RECURSIVE JoinWords(_, _)
JoinWords(words, i) ==
    IF i > Len(words) THEN <<>>
    ELSE IF i = Len(words) THEN words[i]
    ELSE words[i] \o <<" ">> \o JoinWords(words, i + 1)

\* line 109: " ".join(self._current_td.split())
Collapse(text) == JoinWords(SplitWords(text, 1, <<>>, <<>>), 1)

\* cell.replace(",", "")
RemoveCommas(text) == SelectSeq(text, LAMBDA c : c # ",")

\* str.strip()
strip(text) ==
    LET solid == {i \in 1..Len(text) : ~IsSpace(text[i])}
    IN  IF solid = {} THEN <<>>
        ELSE SubSeq(text, CHOOSE i \in solid : \A j \in solid : i <= j, MaxOf(solid))

\* int(rank_text) raises ValueError on a character that is no decimal digit.
IntRaises(text) == \E i \in 1..Len(text) : ~IsDecimal(text[i])

RECURSIVE IntOf(_, _, _)
IntOf(text, i, acc) ==
    IF i > Len(text) THEN acc
    ELSE IntOf(text, i + 1, acc * Len(Decimals) + DecimalValue(text[i]))

\* int(rank_text)
int(text) == IntOf(text, 1, 0)

----------------------------------------------------------------------------
(* The documents fed to OverallTableParser *)

\* What HTMLParser.feed calls the handlers with.
StartTag(tag) == [kind |-> "start", tag |-> tag, data |-> <<>>]
EndTag(tag) == [kind |-> "end", tag |-> tag, data |-> <<>>]
Data(text) == [kind |-> "data", tag |-> "", data |-> text]

\* Cell texts.
CellRank == <<"7">>
CellRankPadded == <<" ", "8", " ">>
CellRankCommas == <<"1", ",", "2", "3", "4">>
CellZero == <<"0">>
CellSuperscript == <<"sup2">>
CellBlank == <<" ">>
CellName == <<"x">>
CellNameSpaced == <<" ", "x", " ", " ", "y">>
CellOther == <<"y">>

\* Table rows, each the texts of its cells.
RowPool ==
    { <<>>,
      <<CellRank, CellName>>,
      <<CellRank, CellName, CellOther>>,
      <<CellOther, CellRankPadded, CellNameSpaced>>,
      <<CellName, CellOther, CellRank>>,
      <<CellRank, CellBlank, CellOther>>,
      <<CellRank, <<>>, CellOther>>,
      <<CellName, CellOther, CellName>>,
      <<CellRankCommas, CellName, CellOther>>,
      <<CellZero, CellName, CellOther>>,
      <<CellSuperscript, CellName, CellOther>>,
      <<CellRank, CellZero, CellName>>,
      <<CellName, CellOther, CellRank, CellName>> }

\* How a document writes its rows:
\*   closed   every tr and td has its end tag, a cell's text is one run;
\*   chunked  the same, with markup inside the cells: one run per character;
\*   open_td  the td end tags are left out;
\*   open_tr  the tr end tags are left out;
\*   th       the cells are th elements;
\*   late_end the end tag of a row's last cell comes after the next tr start tag.
Styles == {"closed", "chunked", "open_td", "open_tr", "th", "late_end"}

DataEvents(text, style) ==
    IF text = <<>> THEN <<>>
    ELSE IF style = "chunked" THEN [i \in 1..Len(text) |-> Data(<<text[i]>>)]
    ELSE <<Data(text)>>

CellTag(style) == IF style = "th" THEN "th" ELSE "td"

RenderCell(text, style) ==
    <<StartTag(CellTag(style))>> \o DataEvents(text, style)
        \o (IF style = "open_td" THEN <<>> ELSE <<EndTag(CellTag(style))>>)

RECURSIVE RenderCells(_, _, _)
RenderCells(row, i, style) ==
    IF i > Len(row) THEN <<>>
    ELSE RenderCell(row[i], IF style = "late_end" /\ i = Len(row) THEN "open_td" ELSE style)
            \o RenderCells(row, i + 1, style)

RenderRow(row, style) ==
    <<StartTag("tr")>> \o (IF style = "late_end" THEN <<EndTag("td")>> ELSE <<>>)
        \o RenderCells(row, 1, style)
        \o (IF style = "open_tr" THEN <<>> ELSE <<EndTag("tr")>>)

RECURSIVE RenderRows(_, _, _)
RenderRows(table, i, style) ==
    IF i > Len(table) THEN <<>>
    ELSE RenderRow(table[i], style) \o RenderRows(table, i + 1, style)

\* A document: a table element around the rows.
Render(table, style) ==
    <<StartTag("table")>> \o RenderRows(table, 1, style) \o <<EndTag("table")>>

\* resp.text: a table of up to MaxRows rows in one style, and the handler
\* calls feed() makes of it.
Docs ==
    {[table |-> t, style |-> s, events |-> Render(t, s)] :
        t \in SeqsUpTo(RowPool, MaxRows), s \in Styles}

Events(d) == d.events

----------------------------------------------------------------------------
(* OverallTableParser *)

\* lines 91-97: __init__
NewParser ==
    [rows |-> <<>>, in_tr |-> FALSE, in_td |-> FALSE, current_td |-> <<>>,
     current_row |-> <<>>, raised |-> "none"]

\* lines 99-105
handle_starttag(p, tag) ==
    IF tag = "tr" THEN [p EXCEPT !.in_tr = TRUE, !.current_row = <<>>]
    ELSE IF tag = "td" /\ p.in_tr THEN [p EXCEPT !.in_td = TRUE, !.current_td = <<>>]
    ELSE p

\* lines 114-119: the index of the first cell that isdigit() accepts, 0 for None
rank_idx(row) ==
    LET hits == {i \in 1..Len(row) : isdigit(strip(RemoveCommas(row[i])))}
    IN  IF hits = {} THEN 0 ELSE CHOOSE i \in hits : \A j \in hits : i <= j

\* lines 112-125: the end of a row
EndRow(p) ==
    LET row == p.current_row
        at == rank_idx(row)
    IN  IF Len(row) >= 3 /\ at # 0 /\ at < Len(row)
        THEN LET player_name == strip(row[at + 1])
                 rank_text == strip(RemoveCommas(row[at]))
             IN  IF isdigit(rank_text) /\ player_name # <<>>
                 THEN IF IntRaises(rank_text)
                      THEN [p EXCEPT !.raised = "ValueError"]
                      ELSE [p EXCEPT !.rows = Append(@, <<int(rank_text), player_name>>)]
                 ELSE p
        ELSE p

\* lines 107-125
handle_endtag(p, tag) ==
    IF tag = "td" /\ p.in_td
    THEN [p EXCEPT !.in_td = FALSE, !.current_row = Append(@, Collapse(p.current_td))]
    ELSE IF tag = "tr" /\ p.in_tr THEN EndRow([p EXCEPT !.in_tr = FALSE])
    ELSE p

\* lines 127-129
handle_data(p, data) ==
    IF p.in_td /\ data # <<>> THEN [p EXCEPT !.current_td = @ \o data] ELSE p

----------------------------------------------------------------------------
(* fetch_overall_page_rows: parser = OverallTableParser(); parser.feed(): SpecParser *)

Parser ==
    [rows |-> parser_rows, in_tr |-> in_tr, in_td |-> in_td, current_td |-> current_td,
     current_row |-> current_row, raised |-> "none"]

\* The parser after one handler call; an exception leaves feed().
Handled(p) ==
    /\ parser_rows' = p.rows
    /\ in_tr' = p.in_tr
    /\ in_td' = p.in_td
    /\ current_td' = p.current_td
    /\ current_row' = p.current_row
    /\ pos' = pos + 1
    /\ pc' = IF p.raised # "none" THEN "raised" ELSE "feed"
    /\ UNCHANGED doc
    /\ UNCHANGED nonParserVars

NextEvent == Events(doc)[pos]

\* lines 183-184, with resp.text any document of Docs
InitParser ==
    /\ NoMigration
    /\ NoPages
    /\ doc \in Docs
    /\ pos = 1
    /\ parser_rows = NewParser.rows
    /\ in_tr = NewParser.in_tr
    /\ in_td = NewParser.in_td
    /\ current_td = NewParser.current_td
    /\ current_row = NewParser.current_row
    /\ pc = "feed"
    /\ entries = <<>>
    /\ idx = 1
    /\ lines = <<>>
    /\ raised = "none"
    /\ status = NoResponse
    /\ payload = NoPayload
    /\ tx = NoTx
    /\ db = EmptyDb
    /\ seq = 0
    /\ backend = "sqlite"
    /\ attempts = <<>>
    /\ results = <<>>
    /\ pre = EmptyDb
    /\ staged = "none"
    /\ origin = <<>>
    /\ players = <<>>
    /\ modes = <<>>
    /\ neighbors = <<>>
    /\ world = [rank |-> 1, offset |-> 1, twin |-> FALSE, table |-> "dense"]
    /\ ahead_count = TRACK_AHEAD_COUNT
    /\ behind_count = TRACK_BEHIND_COUNT
    /\ anchor_rank = None
    /\ candidate_pages = <<>>
    /\ page_i = 1
    /\ rank_to_player = <<>>
    /\ requested = <<>>
    /\ failures = 0
    /\ failed = {}

HandleStartTag ==
    /\ pc = "feed"
    /\ pos <= Len(Events(doc))
    /\ NextEvent.kind = "start"
    /\ Handled(handle_starttag(Parser, NextEvent.tag))

HandleEndTag ==
    /\ pc = "feed"
    /\ pos <= Len(Events(doc))
    /\ NextEvent.kind = "end"
    /\ Handled(handle_endtag(Parser, NextEvent.tag))

HandleData ==
    /\ pc = "feed"
    /\ pos <= Len(Events(doc))
    /\ NextEvent.kind = "data"
    /\ Handled(handle_data(Parser, NextEvent.data))

\* line 185: return parser.rows
ReturnRows ==
    /\ pc = "feed"
    /\ pos > Len(Events(doc))
    /\ pc' = "fed"
    /\ UNCHANGED parserVars
    /\ UNCHANGED nonParserVars

NextParser ==
    \/ HandleStartTag
    \/ HandleEndTag
    \/ HandleData
    \/ ReturnRows

SpecParser == InitParser /\ [][NextParser]_vars

----------------------------------------------------------------------------
(* OverallTableParser: what a page's rows yield *)

\* The trimmed, comma-stripped text of a cell is a non-negative integer.
IsRankCell(text) ==
    LET t == strip(RemoveCommas(text))
    IN  t # <<>> /\ \A i \in 1..Len(t) : IsDecimal(t[i])

FirstRankCell(row) == CHOOSE i \in 1..Len(row) : IsRankCell(row[i]) /\ \A j \in 1..(i - 1) : ~IsRankCell(row[j])

\* A row of at least 3 cells that holds a rank cell.
RowQualifies(row) == Len(row) >= 3 /\ \E i \in 1..Len(row) : IsRankCell(row[i])

\* The pair of the statement: the value of the first rank cell and the text
\* of the cell that follows it (no text when no cell follows).
StatedPair(row) ==
    LET at == FirstRankCell(row)
    IN  << int(strip(RemoveCommas(row[at]))),
           IF at < Len(row) THEN strip(Collapse(row[at + 1])) ELSE <<>> >>

RECURSIVE StatedPairs(_, _)
StatedPairs(table, i) ==
    IF i > Len(table) THEN <<>>
    ELSE IF RowQualifies(table[i]) THEN <<StatedPair(table[i])>> \o StatedPairs(table, i + 1)
    ELSE StatedPairs(table, i + 1)

\* Every tr and td of the document has its end tag.
ExplicitEndTags == doc.style \in {"closed", "chunked"}

\* C16: for a page whose rows are written out with their end tags, the parser
\* gets through every row, and the pairs it returns are, in row order, one
\* pair for each row of at least 3 cells that holds a rank cell: the value of
\* the row's first rank cell and the text of the cell after it.
C16_RowsYieldPairs ==
    ExplicitEndTags =>
        /\ pc # "raised"
        /\ pc = "fed" => parser_rows = StatedPairs(doc.table, 1)

\* C17: every pair in self.rows has a rank of at least 1 and a name.
C17_RankRowsPositive ==
    \A k \in 1..Len(parser_rows) : parser_rows[k][1] >= 1 /\ parser_rows[k][2] # <<>>

----------------------------------------------------------------------------
(* store_snapshot: what the parsed fields hold *)

NumericColumns(row) ==
    IF "skill" \in DOMAIN row THEN {row.rank, row.level, row.xp} ELSE {row.rank, row.score}

NoSentinel(table) == \A i \in 1..Len(table) : Some(-1) \notin NumericColumns(table[i])

\* C18: the raw field "-1" parses to absent, and no skill or minigame row,
\* parsed, inserted in the open transaction or committed, holds the integer
\* -1 in a numeric column.
C18_SentinelNeverStored ==
    /\ parse_int(Num(-1)) = None
    /\ NoSentinel(payload.skills) /\ NoSentinel(payload.minigames)
    /\ NoSentinel(tx.work.skill_data) /\ NoSentinel(tx.work.minigame_data)
    /\ NoSentinel(db.skill_data) /\ NoSentinel(db.minigame_data)

\* A committed snapshot of a record whose first line is -1,-1,-1, and one of
\* a record whose minigame line is.
C18_Witness ==
    /\ \E i \in 1..Len(db.skill_data) :
           /\ db.skill_data[i].skill = SKILL_NAMES[1]
           /\ NumericColumns(db.skill_data[i]) = {None}
    /\ \E i \in 1..Len(db.minigame_data) : NumericColumns(db.minigame_data[i]) = {None}

----------------------------------------------------------------------------
(* store_snapshot, lines 278-296 alone: SpecStore *)

\* Line i of a record whose lines differ from one another.
NumberedLine(i) == <<Num(i), Num(i), Num(i)>>

StoreShapes ==
    LineShapes \cup { <<Txt(1)>>, <<Num(3)>>, <<Num(3), Txt(0), Num(4)>>, <<Txt(1), Txt(1)>> }

WideRecord(n, k, shape) == [i \in 1..n |-> IF i = k THEN shape ELSE NumberedLine(i)]

CatalogLines == Len(SKILL_NAMES) + Len(MINIGAME_NAMES)

\* Up to the catalogs' ends and up to MaxOverflowLines lines beyond them.
WideLineCounts ==
    {0, 1, Len(SKILL_NAMES) - 1, Len(SKILL_NAMES), Len(SKILL_NAMES) + 1,
     CatalogLines - 1, CatalogLines}
        \cup ((CatalogLines + 1)..(CatalogLines + MaxOverflowLines))

\* n numbered lines, or n - 1 of them and a line of another shape at the
\* first line, at the last skill line, at the first minigame line or at the
\* last line.
WideRecords ==
    {WideRecord(n, k, shape) :
        n \in WideLineCounts,
        k \in {0, 1, Len(SKILL_NAMES), Len(SKILL_NAMES) + 1, CatalogLines + 1,
               CatalogLines + MaxOverflowLines},
        shape \in StoreShapes}

InitStore ==
    /\ NoMigration
    /\ NoPages
    /\ lines \in WideRecords
    /\ payload = NoPayload
    /\ raised = "none"
    /\ pc = "store"
    /\ entries = <<>>
    /\ idx = 1
    /\ status = NoResponse
    /\ tx = NoTx
    /\ db = EmptyDb
    /\ seq = 0
    /\ backend = "sqlite"
    /\ attempts = <<>>
    /\ results = <<>>
    /\ pre = EmptyDb
    /\ staged = "none"
    /\ origin = <<>>
    /\ players = <<>>
    /\ modes = <<>>
    /\ neighbors = <<>>
    /\ world = [rank |-> 1, offset |-> 1, twin |-> FALSE, table |-> "dense"]
    /\ ahead_count = TRACK_AHEAD_COUNT
    /\ behind_count = TRACK_BEHIND_COUNT
    /\ anchor_rank = None
    /\ candidate_pages = <<>>
    /\ page_i = 1
    /\ rank_to_player = <<>>
    /\ requested = <<>>
    /\ failures = 0
    /\ failed = {}
    /\ ParserIdle

\* lines 278-296: the for loop over the lines
ParseLines ==
    /\ pc = "store"
    /\ IF ParseRaises(lines)
       THEN /\ raised' = "IndexError"
            /\ pc' = "raised"
            /\ UNCHANGED payload
       ELSE /\ payload' = [skills |-> skill_rows(lines), minigames |-> minigame_rows(lines)]
            /\ pc' = "parsed"
            /\ UNCHANGED raised
    /\ UNCHANGED lines
    /\ UNCHANGED nonStoreVars

NextStore == ParseLines

SpecStore == InitStore /\ [][NextStore]_vars

----------------------------------------------------------------------------
(* store_snapshot: the rows of a raw record *)

\* C19: parsing a raw record never raises, whatever fields its lines hold or
\* lack, and yields one row per line.
C19_ParsingNeverRaises ==
    /\ pc # "raised"
    /\ pc = "parsed" => Len(payload.skills) + Len(payload.minigames) = Len(lines)

\* The 1-based line's row, and the label the catalogs give it.
RowOfLine(i) ==
    IF i <= Len(SKILL_NAMES) THEN payload.skills[i] ELSE payload.minigames[i - Len(SKILL_NAMES)]

LabelOf(row) == IF "skill" \in DOMAIN row THEN row.skill ELSE row.activity

OverflowLines == {i \in 1..Len(lines) : i > CatalogLines}

Synthesized == {"Activity " \o ToString(N) : N \in 1..Len(lines)}

\* C20: line i (counted from 0) of a parsed record is a skill row named by
\* skill catalog entry i when i is below the skill catalog's length S, else a
\* minigame row named by minigame catalog entry i - S, or by a label
\* "Activity N" when i - S is beyond that catalog; the rows stand in the order
\* of their lines, and the labels beyond the catalog differ pairwise.
C20_PositionalCatalogMapping ==
    pc = "parsed" =>
        /\ Len(payload.skills) = Min(Len(lines), Len(SKILL_NAMES))
        /\ Len(payload.minigames) = Max(0, Len(lines) - Len(SKILL_NAMES))
        /\ \A i \in 1..Len(lines) :
               /\ ("skill" \in DOMAIN RowOfLine(i)) = (i <= Len(SKILL_NAMES))
               /\ RowOfLine(i).rank = parse_int(lines[i][1])
               /\ i <= Len(SKILL_NAMES) => LabelOf(RowOfLine(i)) = SKILL_NAMES[i]
               /\ (Len(SKILL_NAMES) < i /\ i <= CatalogLines)
                      => LabelOf(RowOfLine(i)) = MINIGAME_NAMES[i - Len(SKILL_NAMES)]
               /\ i \in OverflowLines => LabelOf(RowOfLine(i)) \in Synthesized
        /\ \A i, j \in OverflowLines :
               i # j => LabelOf(RowOfLine(i)) # LabelOf(RowOfLine(j))

\* A record of two lines more than the catalogs name.
C20_Witness ==
    /\ pc = "parsed"
    /\ Len(lines) = CatalogLines + 2
    /\ payload.skills[Len(SKILL_NAMES)].skill = "Sailing"
    /\ payload.minigames[Len(MINIGAME_NAMES)].rank = Some(CatalogLines)
    /\ payload.minigames[Len(MINIGAME_NAMES) + 1].activity = "Activity 71"
    /\ payload.minigames[Len(MINIGAME_NAMES) + 1].rank = Some(CatalogLines + 1)
    /\ payload.minigames[Len(MINIGAME_NAMES) + 2].activity = "Activity 72"

----------------------------------------------------------------------------
(* collect(): one snapshot per ingested entry *)

\* The attempted entries whose fetch_raw returned lines.
Fetched == {i \in 1..Len(results) : results[i].outcome \in {"OK", "StorageFailure", "IndexError"}}

\* The attempted entries whose store_snapshot returned.
Stored == {i \in 1..Len(results) : results[i].outcome = "OK"}

\* The committed snapshot rows of the i-th attempted entry.
RowsFor(i) ==
    {j \in 1..Len(db.snapshots) :
        db.snapshots[j] = [id |-> results[i].snap, player |-> Lower(entries[i][1]),
                           mode |-> entries[i][2]]}

DistinctIds ==
    \A j, k \in 1..Len(db.snapshots) : j # k => db.snapshots[j].id # db.snapshots[k].id

\* C21 as stated: every entry whose fetch succeeded has added exactly one
\* snapshot row, of its lowercased name and its mode, every entry whose fetch
\* failed none, and the rows carry distinct identifiers.
C21_OneSnapshotPerFetch ==
    /\ Len(db.snapshots) = Cardinality(Fetched)
    /\ \A i \in Fetched : Cardinality(RowsFor(i)) = 1
    /\ DistinctIds

\* C21, amended: every entry whose fetch succeeded and whose store_snapshot
\* committed has added exactly one snapshot row, of its lowercased name and
\* its mode, every other entry none, and the rows carry distinct identifiers.
C21_OneSnapshotPerStoredFetch ==
    /\ Len(db.snapshots) = Cardinality(Stored)
    /\ \A i \in Stored : Cardinality(RowsFor(i)) = 1
    /\ \A i \in 1..Len(results) : i \notin Stored => results[i].snap = 0
    /\ DistinctIds

\* The same entry polled twice in one run, both polls ingested.
C21_Witness ==
    /\ pc = "done"
    /\ entries = << <<"XESPIS", "regular">>, <<"XESPIS", "regular">> >>
    /\ Stored = {1, 2}
    /\ Len(db.snapshots) = 2
    /\ db.snapshots[1].player = "xespis" /\ db.snapshots[2].player = "xespis"
    /\ db.snapshots[1].id # db.snapshots[2].id

----------------------------------------------------------------------------
(* scripts/migrate_sqlite_to_postgres.py: SpecMigrate *)

\* How many snapshots a store holds when the migration starts, at most.
MaxStored == 2

\* A store as n committed store_snapshot calls for one entry leave it: snapshot
\* ids 1..n, each with its child rows (one of each kind is modelled).
StoreOf(n, player, mode) ==
    [snapshots     |-> [i \in 1..n |-> [id |-> i, player |-> player, mode |-> mode]],
     skill_data    |-> [i \in 1..n |-> [snapshot_id |-> i, skill |-> SKILL_NAMES[1],
                                        rank |-> <<7>>, level |-> <<2277>>, xp |-> <<5>>]],
     minigame_data |-> [i \in 1..n |-> [snapshot_id |-> i, activity |-> MINIGAME_NAMES[1],
                                        rank |-> None, score |-> None]]]

Stores ==
    {StoreOf(n, e[1], e[2]) :
        n \in 0..MaxStored, e \in {<<"xespis", "regular">>, <<"tibble49", "ironman">>}}

\* The file at SQLITE_PATH: absent, or holding a store.
SqliteFiles ==
    {[exists |-> FALSE, snapshots |-> <<>>, skill_data |-> <<>>, minigame_data |-> <<>>]}
    \cup {[exists |-> TRUE, snapshots |-> st.snapshots, skill_data |-> st.skill_data,
           minigame_data |-> st.minigame_data] : st \in Stores}

InitMigrate ==
    /\ NoPages
    /\ sqlite_file \in SqliteFiles
    /\ backend \in {"sqlite", "postgres"}
    /\ db \in Stores
    /\ seq = Len(db.snapshots)
    /\ tx = NoTx
    /\ pc = "m_start"
    /\ entries = <<>>
    /\ idx = 1
    /\ lines = <<>>
    /\ raised = "none"
    /\ status = NoResponse
    /\ payload = NoPayload
    /\ attempts = <<>>
    /\ results = <<>>
    /\ pre = EmptyDb
    /\ staged = "none"
    /\ origin = <<>>
    /\ players = <<>>
    /\ modes = <<>>
    /\ neighbors = <<>>
    /\ world = [rank |-> 1, offset |-> 1, twin |-> FALSE, table |-> "dense"]
    /\ ahead_count = 0
    /\ behind_count = 0
    /\ anchor_rank = None
    /\ candidate_pages = <<>>
    /\ page_i = 1
    /\ rank_to_player = <<>>
    /\ requested = <<>>
    /\ failures = 0
    /\ failed = {}
    /\ ParserIdle

\* lines 31-32: DATABASE_URL is not a PostgreSQL URL
RefuseTarget ==
    /\ UNCHANGED nonMigrateVars
    /\ pc = "m_start"
    /\ backend # "postgres"
    /\ pc' = "exit"
    /\ UNCHANGED <<tx, db, seq, backend, sqlite_file>>

\* lines 34-35: no file at SQLITE_PATH
RefuseSource ==
    /\ UNCHANGED nonMigrateVars
    /\ pc = "m_start"
    /\ backend = "postgres"
    /\ ~sqlite_file.exists
    /\ pc' = "exit"
    /\ UNCHANGED <<tx, db, seq, backend, sqlite_file>>

\* lines 37-41: the three SELECTs over the SQLite file
ReadSqlite ==
    /\ UNCHANGED nonMigrateVars
    /\ pc = "m_start"
    /\ backend = "postgres"
    /\ sqlite_file.exists
    /\ pc' = "m_init"
    /\ UNCHANGED <<tx, db, seq, backend, sqlite_file>>

\* db.init_db: metadata.create_all creates the tables that are missing and
\* touches no row.
init_db(store) == store

\* lines 43-44
MigrateInitDb ==
    /\ UNCHANGED nonMigrateVars
    /\ pc = "m_init"
    /\ db' = init_db(db)
    /\ pc' = "m_begin"
    /\ UNCHANGED <<tx, seq, backend, sqlite_file>>

\* line 46: engine.begin()
MigrateBegin ==
    /\ UNCHANGED nonMigrateVars
    /\ pc = "m_begin"
    /\ tx' = [open |-> TRUE, work |-> db]
    /\ pc' = "m_delete_minigames"
    /\ UNCHANGED <<db, seq, backend, sqlite_file>>

\* conn.execute(delete(t)): every row of the table
DeleteFrom(table) == <<>>

\* line 47
DeleteMinigameData ==
    /\ UNCHANGED nonMigrateVars
    /\ pc = "m_delete_minigames"
    /\ tx' = [tx EXCEPT !.work.minigame_data = DeleteFrom(@)]
    /\ pc' = "m_delete_skills"
    /\ UNCHANGED <<db, seq, backend, sqlite_file>>

\* line 48
DeleteSkillData ==
    /\ UNCHANGED nonMigrateVars
    /\ pc = "m_delete_skills"
    /\ tx' = [tx EXCEPT !.work.skill_data = DeleteFrom(@)]
    /\ pc' = "m_delete_snapshots"
    /\ UNCHANGED <<db, seq, backend, sqlite_file>>

\* line 49
DeleteSnapshots ==
    /\ UNCHANGED nonMigrateVars
    /\ pc = "m_delete_snapshots"
    /\ tx' = [tx EXCEPT !.work.snapshots = DeleteFrom(@)]
    /\ pc' = "m_insert"
    /\ UNCHANGED <<db, seq, backend, sqlite_file>>

\* `if rows: conn.execute(insert(t), rows)`: the rows keep the ids they had
InsertRead(table, rows) == IF rows # <<>> THEN table \o rows ELSE table

\* lines 51-56
MigrateInsert ==
    /\ UNCHANGED nonMigrateVars
    /\ pc = "m_insert"
    /\ tx' = [tx EXCEPT
                !.work.snapshots = InsertRead(@, sqlite_file.snapshots),
                !.work.skill_data = InsertRead(@, sqlite_file.skill_data),
                !.work.minigame_data = InsertRead(@, sqlite_file.minigame_data)]
    /\ pc' = "m_setval"
    /\ UNCHANGED <<db, seq, backend, sqlite_file>>

\* lines 58-64: setval(..., COALESCE(MAX(id), 1), true)
SetSequence ==
    /\ UNCHANGED nonMigrateVars
    /\ pc = "m_setval"
    /\ seq' = IF tx.work.snapshots = <<>> THEN 1
              ELSE MaxOf({tx.work.snapshots[i].id : i \in 1..Len(tx.work.snapshots)})
    /\ pc' = "m_commit"
    /\ UNCHANGED <<tx, db, backend, sqlite_file>>

\* leaving the with block normally, then lines 66-69
MigrateCommit ==
    /\ UNCHANGED nonMigrateVars
    /\ pc = "m_commit"
    /\ db' = Commit(db, tx.work)
    /\ tx' = NoTx
    /\ pc' = "migrated"
    /\ UNCHANGED <<seq, backend, sqlite_file>>

\* A fault of PostgreSQL at engine.begin(), at a statement of the transaction
\* or at the commit: rollback, and the exception ends the script.
MigrateFault ==
    /\ UNCHANGED nonMigrateVars
    /\ pc \in {"m_begin", "m_delete_minigames", "m_delete_skills", "m_delete_snapshots",
               "m_insert", "m_setval", "m_commit"}
    /\ db' = Rollback(db, tx.work)
    /\ tx' = NoTx
    /\ pc' = "exit"
    /\ UNCHANGED <<seq, backend, sqlite_file>>

NextMigrate ==
    \/ RefuseTarget
    \/ RefuseSource
    \/ ReadSqlite
    \/ MigrateInitDb
    \/ MigrateBegin
    \/ DeleteMinigameData
    \/ DeleteSkillData
    \/ DeleteSnapshots
    \/ MigrateInsert
    \/ SetSequence
    \/ MigrateCommit
    \/ MigrateFault

SpecMigrate == InitMigrate /\ [][NextMigrate]_vars

\* The rows of table `old` are still there, unchanged, in table `new`.
Kept(old, new) ==
    /\ Len(old) <= Len(new)
    /\ \A i \in 1..Len(old) : new[i] = old[i]

Grows(old, new) ==
    /\ Kept(old.snapshots, new.snapshots)
    /\ Kept(old.skill_data, new.skill_data)
    /\ Kept(old.minigame_data, new.minigame_data)

\* C22: no step of the program updates or deletes a committed snapshot row or
\* a committed child row of the store it writes to; the store only grows.
C22_StoreOnlyGrows == [][Grows(db, db')]_vars

----------------------------------------------------------------------------
(* collect(): one entry at a time *)

\* Where the run is while the with block of store_snapshot is executing.
InsideWith == pc \in {"header", "skills", "minigames", "commit"}

\* Where fetch_raw is called next, if at all.
BeforeFetch == pc \in {"loop", "done"}

\* C23: entries are ingested one after the other: when a fetch can begin,
\* every entry fetched before has committed or failed and no transaction is
\* open; an open transaction belongs to the one entry fetched last; entries
\* are fetched and settled in list order.
C23_OneEntryAtATime ==
    /\ Len(attempts) \in {Len(results), Len(results) + 1}
    /\ BeforeFetch => ~tx.open /\ Len(attempts) = Len(results)
    /\ tx.open => InsideWith /\ Len(attempts) = Len(results) + 1 /\ idx = Len(attempts)
    /\ \A i \in 1..Len(attempts) : attempts[i] = entries[i]
    /\ \A i \in 1..Len(results) : results[i].entry = entries[i]

\* The second entry's transaction is open; the first entry has committed.
C23_Witness ==
    /\ idx = 2
    /\ tx.open
    /\ pc = "skills"
    /\ Len(attempts) = 2
    /\ Len(results) = 1
    /\ results[1].outcome = "OK"

----------------------------------------------------------------------------
(* fetch_overall_page_rows called for page after page: SpecPages *)

\* How many pages are fetched one after the other.
MaxPages == 2

\* Variant: one parser object serves every page.
SameParser(last) == last

\* line 183: parser = OverallTableParser(), whatever parser the call before
\* this one had built.
OverallTableParser(last) == NewParser

\* line 184: parser.feed(resp.text), the handler calls in document order up to
\* the first exception.
RECURSIVE Feed(_, _, _)
Feed(p, events, i) ==
    IF i > Len(events) \/ p.raised # "none" THEN p
    ELSE LET e == events[i]
         IN  Feed(IF e.kind = "start" THEN handle_starttag(p, e.tag)
                  ELSE IF e.kind = "end" THEN handle_endtag(p, e.tag)
                  ELSE handle_data(p, e.data),
                  events, i + 1)

\* A page of one well-formed row.
PlainDoc ==
    [table |-> << <<CellRank, CellName, CellOther>> >>, style |-> "closed",
     events |-> Render(<< <<CellRank, CellName, CellOther>> >>, "closed")]

\* What the site may answer: anything to the first call, the first document
\* again or the plain page to the second, the first document again after that.
Answers ==
    IF pages = <<>> THEN Docs
    ELSE IF Len(pages) = 1 THEN {pages[1].doc, PlainDoc}
    ELSE {pages[1].doc}

InitPages ==
    /\ NoMigration
    /\ NoPages
    /\ ParserIdle
    /\ pc = "page"
    /\ entries = <<>>
    /\ idx = 1
    /\ lines = <<>>
    /\ raised = "none"
    /\ status = NoResponse
    /\ payload = NoPayload
    /\ tx = NoTx
    /\ db = EmptyDb
    /\ seq = 0
    /\ backend = "sqlite"
    /\ attempts = <<>>
    /\ results = <<>>
    /\ pre = EmptyDb
    /\ staged = "none"
    /\ origin = <<>>
    /\ players = <<>>
    /\ modes = <<>>
    /\ neighbors = <<>>
    /\ world = [rank |-> 1, offset |-> 1, twin |-> FALSE, table |-> "dense"]
    /\ ahead_count = TRACK_AHEAD_COUNT
    /\ behind_count = TRACK_BEHIND_COUNT
    /\ anchor_rank = None
    /\ candidate_pages = <<>>
    /\ page_i = 1
    /\ rank_to_player = <<>>
    /\ requested = <<>>
    /\ failures = 0
    /\ failed = {}

\* lines 183-185: one call, from the new parser to the returned rows (or to the
\* exception that leaves the call)
FetchOverallPageRows ==
    /\ pc = "page"
    /\ Len(pages) < MaxPages
    /\ \E d \in Answers :
        LET parser == Feed(OverallTableParser(Parser), Events(d), 1)
        IN  /\ doc' = d
            /\ parser_rows' = parser.rows
            /\ in_tr' = parser.in_tr
            /\ in_td' = parser.in_td
            /\ current_td' = parser.current_td
            /\ current_row' = parser.current_row
            /\ pages' = Append(pages, [doc |-> d, rows |-> parser.rows,
                                       raised |-> parser.raised])
    /\ UNCHANGED <<pos, pc>>
    /\ UNCHANGED <<collectVars, mainVars, resolveVars, migrateVars>>

NextPages == FetchOverallPageRows

SpecPages == InitPages /\ [][NextPages]_vars

----------------------------------------------------------------------------
(* get_neighbor_players: the candidate pages under either page numbering *)

\* The page that lists `rank` when the site numbers its pages from 0.
PageHoldingZeroBased(rank) == (rank - 1) \div PageSize

\* C25: for an anchor rank of at least 1, the candidate pages hold, for every
\* rank of the target interval, the page that lists it when pages are numbered
\* from 1 and the page that lists it when they are numbered from 0.
C25_BothPageNumberings ==
    RankKnown =>
        \A k \in WindowLow..WindowHigh :
            /\ PageHolding(k) \in Range(candidate_pages)
            /\ PageHoldingZeroBased(k) \in Range(candidate_pages)

\* The interval 16..29 lies on two pages: 1 and 2 counted from 1, 0 and 1
\* counted from 0.
C25_Witness ==
    /\ pc = "pages"
    /\ anchor_rank = Some(26) /\ ahead_count = 10 /\ behind_count = 3
    /\ WindowLow = 16 /\ WindowHigh = 29
    /\ {0, 1, 2} \subseteq Range(candidate_pages)

----------------------------------------------------------------------------
(* OverallTableParser: where the text of a row's cells comes from *)

\* The position of the tr start tag that opened the row being read at event i.
RECURSIVE RowStart(_, _)
RowStart(events, i) ==
    IF i = 0 THEN 0
    ELSE IF events[i] = StartTag("tr") THEN i
    ELSE RowStart(events, i - 1)

\* The cells of the row that ends at event i when only the events since its
\* own tr start tag are read: each cell from its own td start tag to its td
\* end tag.
RowAlone(events, i) ==
    LET from == RowStart(events, i - 1)
    IN  Feed([NewParser EXCEPT !.in_tr = TRUE], SubSeq(events, from + 1, i - 1), 1).current_row

\* C26: whenever a row is emitted, each of its cells holds exactly the text
\* between that cell's own td start tag and td end tag inside the row's tr:
\* nothing read before the row's tr start tag is part of them.
C26_CellsFromOwnRow ==
    [][Len(parser_rows') = Len(parser_rows) + 1 => current_row = RowAlone(Events(doc), pos)]_vars

----------------------------------------------------------------------------
(* get_neighbor_players: how many requests one call makes *)

\* The page fetches one call may make: the pages of the target interval, two
\* below and two above.
PageFetchLimit == PageOf(EndRank) - PageOf(StartRank) + 5

RequestsBounded ==
    /\ Len(attempts) = (IF pc = "rank" THEN 0 ELSE 1)
    /\ \A i \in 1..Len(attempts) : attempts[i] = <<ANCHOR_PLAYER, ANCHOR_MODE>>
    /\ (pc = "rank" \/ Falsy(anchor_rank)) => requested = <<>>
    /\ (pc # "rank" /\ ~Falsy(anchor_rank)) =>
          /\ Len(requested) <= PageFetchLimit
          /\ (ahead_count = TRACK_AHEAD_COUNT /\ behind_count = TRACK_BEHIND_COUNT)
                => Len(requested) <= 6

\* The for loop of lines 209-220 has a candidate left whenever it is about to
\* fetch, has made one request per iteration so far, and never makes more
\* requests than there are candidates.
LoopAdvances ==
    /\ pc = "pages" => page_i \in 1..Len(candidate_pages) /\ Len(requested) = page_i - 1
    /\ pc = "returned" => Len(requested) <= Len(candidate_pages)

\* C27: one call fetches the anchor's raw record exactly once and at most
\* (last page of the interval - first page of the interval + 5) leaderboard
\* pages, at most 6 with the default window, whatever the pages hold and
\* however many fetches fail; each iteration of its loop uses up one candidate
\* page, so the loop ends.
C27_TerminatesWithBoundedRequests == RequestsBounded /\ LoopAdvances

\* The default window around rank 30 (ranks 20 to 33, pages 1 and 2) over a
\* site whose every page fetch fails: all 5 candidates 0..4 were requested.
C27_Witness ==
    /\ pc = "returned"
    /\ anchor_rank = Some(30) /\ ahead_count = 10 /\ behind_count = 3
    /\ world.table = "down"
    /\ requested = <<0, 1, 2, 3, 4>>
    /\ Len(attempts) = 1
    /\ neighbors = <<>>

====
